---- MODULE Spec2Model ----
(***************************************************************************)
(* Model of examples/jla_sne_marginalized.ipynb: the notebook that wires   *)
(* the JLA supernova simulator, the nuisance-hardened score compressor,    *)
(* the ensemble of neural density estimators and the Delfi engine.         *)
(*                                                                         *)
(* Real numbers are written as integers scaled by 1000 (0.6 is 600).       *)
(* Python sequences are 0-indexed; the sequences here are 1-indexed, so    *)
(* args[0] is args[1] below.  Index values (nuisance_indices, the slice    *)
(* 0:2) keep their 0-based Python value.                                   *)
(***************************************************************************)
EXTENDS Integers, Sequences, FiniteSets, TLC

VARIABLES
    pc,              \* the notebook cell about to be executed
    trace,           \* the cells that have completed, in order
    failedAt,        \* the cell in which an exception was raised
    prior,           \* prior over the interesting parameters
    eta_prior,       \* prior over the nuisance parameters
    simulator_args,  \* [eta_prior]
    Compressor,      \* the score.Gaussian object (fiducial point, Fisher matrix)
    Finv,            \* Compressor.Finv[0:2,0:2]
    compressor_args, \* [nuisance_indices]
    compressed_data, \* summary of the real dataset
    NDEs,            \* the ensemble configuration list
    engine,          \* state of the Delfi object
    weights,         \* number of training passes applied to the ensemble
    seeded,          \* the initial population has been trained on
    round,           \* population rounds completed
    stale,           \* consecutive rounds without improvement
    i_sim,           \* simulations done in the current population
    train_lens,      \* lengths of the summaries in the training set
    rng,             \* state of the process-wide random generator
    sim_cur,         \* the latest invocation of simulator(...)
    comp_cur         \* the latest invocation of compressor(...)

vars == <<pc, trace, failedAt, prior, eta_prior, simulator_args, Compressor,
          Finv, compressor_args, compressed_data, NDEs, engine, weights,
          seeded, round, stale, i_sim, train_lens, rng, sim_cur, comp_cur>>

namespace == <<prior, eta_prior, simulator_args, Compressor, Finv,
               compressor_args, compressed_data, NDEs>>
training == <<engine, weights, seeded, round, stale, i_sim, train_lens>>
calls == <<rng, sim_cur, comp_cur>>

----------------------------------------------------------------------------
(* Bounds of the model *)

\* number of distinct states of the random generator
RngPeriod == 3
\* seeds the engine hands to the simulator are 0..MaxSeed
MaxSeed == 1
\* batch sizes handed to the simulator are 1..MaxBatch
MaxBatch == 2
\* size of the initial population (100 in the notebook)
n_initial == 2
\* size of every later population (100 in the notebook)
n_batch == 2

(* Constants of the notebook *)
n_populations == 11
patience == 10

lower == <<0, -1500>>
upper == <<600, 0>>
eta_lower == <<-20000, 0, 0, -500>>
eta_upper == <<-18000, 1000, 6000, 500>>
theta_fiducial == <<200, -750>>
eta_fiducial == <<-19040, 125, 2640, -50>>

----------------------------------------------------------------------------
(* numpy helpers, as the notebook uses them *)

Range(s) == {s[i] : i \in 1..Len(s)}

np_concatenate(a, b) == a \o b

\* np.arange(a, b): a, a+1, ..., b-1
np_arange(a, b) == [i \in 1..(IF b > a THEN b - a ELSE 0) |-> a + i - 1]

\* M[a:b, a:b] of a square matrix, kept as the index set it covers
Matrix(point, n) == [at |-> point, idx |-> Range(np_arange(0, n))]
NoMatrix == [at |-> <<>>, idx |-> {}]
Block(M, a, b) == [M EXCEPT !.idx = {i \in M.idx : a <= i /\ i < b}]

----------------------------------------------------------------------------
(* Values *)

NoPrior == [lower |-> <<>>, upper |-> <<>>]
Uniform(lo, hi) == [lower |-> lo, upper |-> hi]

NoData == [src |-> "none", rows |-> 0, params |-> <<>>, seed |-> 0]
JLA_data == [src |-> "jla", rows |-> 1, params |-> <<>>, seed |-> 0]

NoSummary == [t |-> <<>>, nuisance |-> <<>>, d |-> NoData]

NoCompressor == [theta_fiducial |-> <<>>, F |-> NoMatrix, Finv |-> NoMatrix]

NoSim == [called |-> FALSE, theta |-> <<>>, seed |-> 0, batch |-> 0,
          args |-> <<>>, eta |-> <<>>, out |-> NoData]
NoComp == [called |-> FALSE, d |-> NoData, args |-> <<>>, out |-> NoSummary]

----------------------------------------------------------------------------
(* Library behaviour the notebook relies on *)

\* priors.Uniform.draw(): a point of the box, chosen by the generator state s
Uniform_draw(p, s) ==
    [i \in 1..Len(p.lower) |->
        p.lower[i] + ((p.upper[i] - p.lower[i]) * s) \div RngPeriod]

RngNext(s) == (s + 1) % RngPeriod

\* JLA_Model.simulation(parameters, seed): one dataset, fixed by its arguments
JLA_simulation(parameters, seed) ==
    [src |-> "sim", rows |-> 1, params |-> parameters, seed |-> seed]

\* score.Gaussian(...) followed by compute_fisher()
Gaussian_compute_fisher(point) ==
    [theta_fiducial |-> point,
     F |-> Matrix(point, Len(point)),
     Finv |-> Matrix(point, Len(point))]

\* score.Gaussian.projected_scoreMLE(d, nuisances): the score with the
\* coordinates in nuisances projected out
projected_scoreMLE(d, nuisances) ==
    [t |-> SelectSeq(np_arange(0, Len(Compressor.theta_fiducial)),
                     LAMBDA i : i \notin Range(nuisances)),
     nuisance |-> nuisances,
     d |-> d]

\* variant: the population test is off by one
LoopExhausted_late(r, s) == r > n_populations \/ s >= patience

\* the engine leaves the population loop
LoopExhausted(r, s) == r >= n_populations \/ s >= patience

----------------------------------------------------------------------------
(* The functions the notebook defines *)

\* variant: the nuisance draw is put in front of theta
simulator_swapped(theta, seed, sim_args, batch) ==
    LET eta_prior_ == sim_args[1]
        eta == Uniform_draw(eta_prior_, rng)
    IN  JLA_simulation(np_concatenate(eta, theta), seed)

\* def simulator(theta, seed, simulator_args, batch)
simulator(theta, seed, sim_args, batch) ==
    LET eta_prior_ == sim_args[1]
        eta == Uniform_draw(eta_prior_, rng)
    IN  JLA_simulation(np_concatenate(theta, eta), seed)

\* variant: the first nuisance coordinate is left out
nuisance_indices_short == np_arange(3, 6)

\* nuisance_indices = np.arange(2,6)
nuisance_indices == np_arange(2, 6)

\* def compressor(d, compressor_args)
compressor(d, comp_args) ==
    LET nuisances_indices == comp_args[1]
    IN  projected_scoreMLE(d, nuisance_indices)

\* one invocation of simulator, with the draw it makes
SimCall(theta, seed, sim_args, batch) ==
    [called |-> TRUE, theta |-> theta, seed |-> seed, batch |-> batch,
     args |-> sim_args, eta |-> Uniform_draw(sim_args[1], rng),
     out |-> simulator(theta, seed, sim_args, batch)]

CompCall(d, comp_args) ==
    [called |-> TRUE, d |-> d, args |-> comp_args,
     out |-> compressor(d, comp_args)]

----------------------------------------------------------------------------
(* The notebook, cell by cell *)

\* variant: the ensemble is built before the real data is compressed
NextCell_reordered(c) ==
    CASE c = "prior" -> "simulator"
      [] c = "simulator" -> "compressor"
      [] c = "compressor" -> "ndes"
      [] c = "ndes" -> "compress_data"
      [] c = "compress_data" -> "delfi"
      [] c = "delfi" -> "pretrain"
      [] c = "pretrain" -> "train"
      [] c = "train" -> "done"
      [] OTHER -> "done"

\* variant: sequential training is run before the Fisher pre-training
NextCell_trainfirst(c) ==
    CASE c = "prior" -> "simulator"
      [] c = "simulator" -> "compressor"
      [] c = "compressor" -> "compress_data"
      [] c = "compress_data" -> "ndes"
      [] c = "ndes" -> "delfi"
      [] c = "delfi" -> "train"
      [] c = "train" -> "pretrain"
      [] c = "pretrain" -> "done"
      [] OTHER -> "done"

NextCell(c) ==
    CASE c = "prior" -> "simulator"
      [] c = "simulator" -> "compressor"
      [] c = "compressor" -> "compress_data"
      [] c = "compress_data" -> "ndes"
      [] c = "ndes" -> "delfi"
      [] c = "delfi" -> "pretrain"
      [] c = "pretrain" -> "train"
      [] c = "train" -> "done"
      [] OTHER -> "done"

Completed(c) ==
    /\ trace' = Append(trace, c)
    /\ pc' = NextCell(c)
    /\ UNCHANGED failedAt

Init ==
    /\ pc = "prior"
    /\ trace = <<>>
    /\ failedAt = "none"
    /\ prior = NoPrior
    /\ eta_prior = NoPrior
    /\ simulator_args = <<>>
    /\ Compressor = NoCompressor
    /\ Finv = NoMatrix
    /\ compressor_args = <<>>
    /\ compressed_data = NoSummary
    /\ NDEs = <<>>
    /\ engine = "none"
    /\ weights = 0
    /\ seeded = FALSE
    /\ round = 0
    /\ stale = 0
    /\ i_sim = 0
    /\ train_lens = {}
    /\ rng \in 0..(RngPeriod - 1)
    /\ sim_cur = NoSim
    /\ comp_cur = NoComp

PriorCell ==
    /\ pc = "prior"
    /\ prior' = Uniform(lower, upper)
    /\ eta_prior' = Uniform(eta_lower, eta_upper)
    /\ Completed("prior")
    /\ UNCHANGED <<simulator_args, Compressor, Finv, compressor_args,
                   compressed_data, NDEs, training, calls>>

SimulatorCell ==
    /\ pc = "simulator"
    /\ simulator_args' = <<eta_prior>>
    /\ Completed("simulator")
    /\ UNCHANGED <<prior, eta_prior, Compressor, Finv, compressor_args,
                   compressed_data, NDEs, training, calls>>

CompressorCell ==
    /\ pc = "compressor"
    /\ Compressor' =
          Gaussian_compute_fisher(np_concatenate(theta_fiducial, eta_fiducial))
    /\ Finv' = Block(Compressor'.Finv, 0, 2)
    /\ compressor_args' = <<nuisance_indices>>
    /\ Completed("compressor")
    /\ UNCHANGED <<prior, eta_prior, simulator_args, compressed_data, NDEs,
                   training, calls>>

\* variant: compressing the data refits the Fisher matrix at the prior edge
CompressDataCell_refit ==
    /\ pc = "compress_data"
    /\ comp_cur' = CompCall(JLA_data, compressor_args)
    /\ compressed_data' = comp_cur'.out
    /\ Compressor' = Gaussian_compute_fisher(np_concatenate(lower, eta_lower))
    /\ Completed("compress_data")
    /\ UNCHANGED <<prior, eta_prior, simulator_args, Finv,
                   compressor_args, NDEs, training, rng, sim_cur>>

CompressDataCell ==
    /\ pc = "compress_data"
    /\ comp_cur' = CompCall(JLA_data, compressor_args)
    /\ compressed_data' = comp_cur'.out
    /\ Completed("compress_data")
    /\ UNCHANGED <<prior, eta_prior, simulator_args, Compressor, Finv,
                   compressor_args, NDEs, training, rng, sim_cur>>

MAF(hiddens, mades, idx) ==
    [family |-> "ConditionalMaskedAutoregressiveFlow", n_parameters |-> 2,
     n_data |-> 2, n_hidden |-> hiddens, n_components |-> mades,
     index |-> idx]
MDN(components, hiddens, idx) ==
    [family |-> "MixtureDensityNetwork", n_parameters |-> 2, n_data |-> 2,
     n_hidden |-> hiddens, n_components |-> components, index |-> idx]

NDEsCell ==
    /\ pc = "ndes"
    /\ NDEs' = <<MAF(<<50, 50>>, 5, 0),
                 MDN(1, <<30, 30>>, 1),
                 MDN(2, <<30, 30>>, 2),
                 MDN(3, <<30, 30>>, 3),
                 MDN(4, <<30, 30>>, 4),
                 MDN(5, <<30, 30>>, 5)>>
    /\ Completed("ndes")
    /\ UNCHANGED <<prior, eta_prior, simulator_args, Compressor, Finv,
                   compressor_args, compressed_data, training, calls>>

DelfiCell ==
    /\ pc = "delfi"
    /\ engine' = "constructed"
    /\ Completed("delfi")
    /\ UNCHANGED <<namespace, weights, seeded, round, stale, i_sim,
                   train_lens, calls>>

FisherPretrainingCell ==
    /\ pc = "pretrain"
    /\ engine' = "fisher_pretrained"
    /\ weights' = weights + 1
    /\ Completed("pretrain")
    /\ UNCHANGED <<namespace, seeded, round, stale, i_sim, train_lens, calls>>

\* DelfiEnsemble.sequential_training(...) is entered
SequentialTrainingCall ==
    /\ pc = "train"
    /\ engine \in {"constructed", "fisher_pretrained"}
    /\ engine' = "training"
    /\ seeded' = FALSE
    /\ round' = 0
    /\ stale' = 0
    /\ i_sim' = 0
    /\ UNCHANGED <<pc, trace, failedAt, namespace, weights, train_lens, calls>>

PopulationSize == IF seeded THEN n_batch ELSE n_initial

\* one parameter draw is simulated, compressed and added to the training set
RunSimulation ==
    /\ pc = "train"
    /\ engine = "training"
    /\ i_sim < PopulationSize
    /\ \E s \in 0..(RngPeriod - 1), seed \in 0..MaxSeed, b \in 1..MaxBatch :
          /\ sim_cur' = SimCall(Uniform_draw(prior, s), seed, simulator_args, b)
          /\ rng' = RngNext(rng)
          /\ comp_cur' = CompCall(sim_cur'.out, compressor_args)
          /\ train_lens' = train_lens \cup {Len(comp_cur'.out.t)}
    /\ i_sim' = i_sim + 1
    /\ UNCHANGED <<pc, trace, failedAt, namespace, engine, weights, seeded,
                   round, stale>>

\* the ensemble is retrained on the population and the loop test is made
TrainPopulation ==
    /\ pc = "train"
    /\ engine = "training"
    /\ i_sim = PopulationSize
    /\ weights' = weights + 1
    /\ i_sim' = 0
    /\ seeded' = TRUE
    /\ IF seeded
          THEN /\ round' = round + 1
               /\ \E improved \in BOOLEAN :
                     stale' = IF improved THEN 0 ELSE stale + 1
          ELSE UNCHANGED <<round, stale>>
    /\ IF LoopExhausted(round', stale')
          THEN /\ engine' = "exhausted"
               /\ Completed("train")
          ELSE UNCHANGED <<engine, pc, trace, failedAt>>
    /\ UNCHANGED <<namespace, train_lens, calls>>

\* variant: the exception is swallowed and the next cell runs
Raise_swallowed ==
    /\ pc \notin {"done", "aborted"}
    /\ failedAt' = pc
    /\ pc' = NextCell(pc)
    /\ UNCHANGED <<trace, namespace, training, calls>>

\* an exception in the running cell: nothing catches it
Raise ==
    /\ pc \notin {"done", "aborted"}
    /\ failedAt' = pc
    /\ pc' = "aborted"
    /\ UNCHANGED <<trace, namespace, training, calls>>

Next ==
    \/ PriorCell
    \/ SimulatorCell
    \/ CompressorCell
    \/ CompressDataCell
    \/ NDEsCell
    \/ DelfiCell
    \/ FisherPretrainingCell
    \/ SequentialTrainingCall
    \/ RunSimulation
    \/ TrainPopulation
    \/ Raise

Spec == Init /\ [][Next]_vars

\* a running cell keeps running until it completes or raises
FairSpec == Init /\ [][Next]_vars /\ WF_vars(Next)

----------------------------------------------------------------------------
(* The two functions called directly, in the namespace the notebook has     *)
(* built once the prior, simulator and compressor cells have run.           *)

\* index sets a caller may hand to compressor
IndexChoices == {np_arange(2, 6), np_arange(3, 6)}

FnInit ==
    /\ pc = "compress_data"
    /\ trace = <<"prior", "simulator", "compressor">>
    /\ failedAt = "none"
    /\ prior = Uniform(lower, upper)
    /\ eta_prior = Uniform(eta_lower, eta_upper)
    /\ simulator_args = <<Uniform(eta_lower, eta_upper)>>
    /\ Compressor =
          Gaussian_compute_fisher(np_concatenate(theta_fiducial, eta_fiducial))
    /\ Finv = Block(Compressor.Finv, 0, 2)
    /\ compressor_args = <<nuisance_indices>>
    /\ compressed_data = NoSummary
    /\ NDEs = <<>>
    /\ engine = "none"
    /\ weights = 0
    /\ seeded = FALSE
    /\ round = 0
    /\ stale = 0
    /\ i_sim = 0
    /\ train_lens = {}
    /\ rng \in 0..(RngPeriod - 1)
    /\ sim_cur = NoSim
    /\ comp_cur = NoComp

FnCallSimulator ==
    /\ \E s \in 0..(RngPeriod - 1), seed \in 0..MaxSeed, b \in 1..MaxBatch :
          sim_cur' = SimCall(Uniform_draw(prior, s), seed, simulator_args, b)
    /\ rng' = RngNext(rng)
    /\ UNCHANGED <<pc, trace, failedAt, namespace, training, comp_cur>>

FnCallCompressor ==
    /\ \E d \in {JLA_data} \cup (IF sim_cur.called THEN {sim_cur.out} ELSE {}),
          I \in IndexChoices :
          comp_cur' = CompCall(d, <<I>>)
    /\ UNCHANGED <<pc, trace, failedAt, namespace, training, rng, sim_cur>>

FnNext ==
    \/ FnCallSimulator
    \/ FnCallCompressor

FnSpec == FnInit /\ [][FnNext]_vars

----------------------------------------------------------------------------
(* Properties *)

StepOrder == <<"prior", "simulator", "compressor", "compress_data", "ndes",
               "delfi", "pretrain", "train">>

IsPrefix(s, t) == Len(s) <= Len(t) /\ SubSeq(t, 1, Len(s)) = s

\* the cells of StepOrder that come before cell c
Before(c) == SelectSeq(StepOrder,
                LAMBDA x : \E i, j \in 1..Len(StepOrder) :
                              StepOrder[i] = x /\ StepOrder[j] = c /\ i < j)

C1_State ==
    /\ IsPrefix(trace, StepOrder)
    /\ pc \notin {"aborted", "done"} => pc = StepOrder[Len(trace) + 1]
    /\ pc = "done" => trace = StepOrder
    /\ engine \in {"training", "exhausted"} => "delfi" \in Range(trace)
    /\ engine = "fisher_pretrained" => "pretrain" \in Range(trace)

C1_Step ==
    /\ engine \in {"training", "exhausted"}
          => engine' \in {"training", "exhausted"}
    /\ engine = "exhausted" => engine' = "exhausted"

\* C1: the cells complete in the order prior, simulator, compressor,
\* compression of the real data (once), ensemble, engine, fisher_pretraining,
\* sequential_training; the engine trains only after it was constructed and
\* never goes back from training to constructed or fisher-pretrained.
C1_DriverOrder == [] C1_State /\ [][C1_Step]_vars

C1_Witness == pc = "done" /\ trace = StepOrder /\ engine = "exhausted"

\* C2: sequential_training always ends, after at most n_populations
\* population rounds, also when patience is never exhausted.
C2_Terminates ==
    /\ <>(pc \in {"done", "aborted"})
    /\ [](round <= n_populations)
    /\ [](engine = "exhausted" => seeded /\ pc = "done")

C2_Witness ==
    engine = "exhausted" /\ round = n_populations /\ stale < patience

\* C3: compressor(d, [I]) projects out the index set I it was handed.
C3_UsesSuppliedIndices ==
    comp_cur.called => comp_cur.out.nuisance = comp_cur.args[1]

\* C4: two calls of simulator with the same theta, seed and nuisance draw
\* return the same data, and the nuisance draw of a call is fixed by the
\* call's arguments, not by what earlier calls left behind.
C4_Deterministic ==
    [][(sim_cur.called /\ sim_cur'.called /\ rng' # rng
          /\ sim_cur'.theta = sim_cur.theta /\ sim_cur'.seed = sim_cur.seed)
        => /\ sim_cur'.eta = sim_cur.eta => sim_cur'.out = sim_cur.out
           /\ (sim_cur'.args = sim_cur.args /\ sim_cur'.batch = sim_cur.batch)
                 => (sim_cur'.eta = sim_cur.eta /\ sim_cur'.out = sim_cur.out)
       ]_vars

\* C5: simulator(theta, seed, simulator_args, b) returns b datasets.
C5_BatchShape == sim_cur.called => sim_cur.out.rows = sim_cur.batch

\* C6: every summary the compressor returns, for the real data and for every
\* simulated dataset, has as many entries as there are interesting
\* parameters (2), so the training set and compressed_data agree in length.
C6_SummaryLength ==
    /\ comp_cur.called
          => Len(comp_cur.out.t) = 2 /\ Len(comp_cur.out.t) = Len(theta_fiducial)
    /\ compressed_data # NoSummary => Len(compressed_data.t) = 2
    /\ \A n \in train_lens : n = 2 /\ n = Len(compressed_data.t)

C6_Witness ==
    /\ round >= 1
    /\ train_lens # {}
    /\ comp_cur.called /\ comp_cur.d.src = "sim"
    /\ sim_cur.batch = MaxBatch

\* C7: the simulator is not called before fisher_pretraining has returned,
\* and fisher_pretraining itself does not call it.
C7_PretrainBeforeSimulation ==
    /\ [](sim_cur.called => "pretrain" \in Range(trace))
    /\ [][pc = "pretrain" => sim_cur' = sim_cur /\ rng' = rng]_vars

C7_Witness ==
    sim_cur.called /\ engine = "training" /\ "pretrain" \in Range(trace)

\* C8: once computed, the Fisher matrix, its inverse and the block handed to
\* the engine never change, and once built the ensemble configuration never
\* changes; pre-training and training leave the whole namespace alone and
\* change only the weights and the training state.
C8_ReadOnly ==
    [][/\ Compressor # NoCompressor => Compressor' = Compressor /\ Finv' = Finv
       /\ NDEs # <<>> => NDEs' = NDEs
       /\ pc \in {"pretrain", "train"} => namespace' = namespace
      ]_vars

C8_Witness ==
    /\ engine = "exhausted"
    /\ weights >= 3
    /\ Len(NDEs) = 6
    /\ Compressor.F # NoMatrix
    /\ compressed_data # NoSummary

C9_State ==
    /\ failedAt # "none" <=> pc = "aborted"
    /\ pc = "aborted" => trace = Before(failedAt)

\* C9: a failing cell aborts the run: the cell is not completed, it is not
\* run again, and no later cell runs.
C9_NoRecovery == [] C9_State /\ [][pc # "aborted"]_vars

C9_Witness ==
    /\ pc = "aborted"
    /\ failedAt = "train"
    /\ engine = "training"
    /\ sim_cur.called

\* C10: the joint vector has 6 entries, interesting ones first, wherever it
\* is built; the nuisance index set is {2,3,4,5}, the block given to the
\* engine covers {0,1}; the two are disjoint and cover 0..5.
C10_JointLayout ==
    /\ sim_cur.called
          => /\ Len(sim_cur.theta) = 2 /\ Len(sim_cur.eta) = 4
             /\ Len(sim_cur.out.params) = 6
             /\ SubSeq(sim_cur.out.params, 1, 2) = sim_cur.theta
             /\ SubSeq(sim_cur.out.params, 3, 6) = sim_cur.eta
    /\ Compressor # NoCompressor
          => /\ Len(Compressor.theta_fiducial) = 6
             /\ SubSeq(Compressor.theta_fiducial, 1, 2) = theta_fiducial
             /\ SubSeq(Compressor.theta_fiducial, 3, 6) = eta_fiducial
             /\ Compressor.F.idx = 0..5
             /\ Finv.idx = {0, 1}
             /\ Range(compressor_args[1]) = {2, 3, 4, 5}
             /\ Finv.idx \cap Range(compressor_args[1]) = {}
             /\ Finv.idx \cup Range(compressor_args[1]) = 0..5
    /\ comp_cur.called => Range(comp_cur.out.nuisance) = {2, 3, 4, 5}

C10_Witness ==
    /\ sim_cur.called
    /\ comp_cur.called
    /\ comp_cur.d = sim_cur.out
    /\ Finv # NoMatrix

====
